---- MODULE Spec2Model ----
(***************************************************************************)
(* Model of binance_trade_bot/backtest.py: the simulated exchange          *)
(* (MockBinanceManager), its cached historical price lookup, and the       *)
(* backtest() loop driving a strategy over a virtual clock.                *)
(*                                                                         *)
(* Quantities are Python floats (IEEE-754 doubles), computed operation by   *)
(* operation with the rounding of the interpreter; Python's None is a      *)
(* triple no float equals.  An int of the ledger is the float of the same  *)
(* value.  Time is counted in minutes after datetime(2021, 1, 1).          *)
(***************************************************************************)
EXTENDS Integers, Sequences, FiniteSets, TLC

(***************************************************************************)
(* Bounds of the model.                                                    *)
(***************************************************************************)
\* latest end_date (minutes) a run is given
MaxEnd == 2
\* orders (buy_alt / sell_alt calls) one run may start
MaxOrders == 2
\* exchange calls the strategy may make in one run
MaxCalls == 2
\* depth at which the interpreter refuses another nested
\* get_market_ticker_price frame (CPython: about 1000)
MaxRecursionDepth == 2

(***************************************************************************)
(* Arithmetic.  Every operator binds its arguments once (x \in {a}), so    *)
(* that an argument expression is evaluated a single time.                 *)
(***************************************************************************)
The(S) == CHOOSE x \in S : TRUE

(***************************************************************************)
(* Natural numbers of any size: sequences of 15-bit limbs, least           *)
(* significant first, without leading zero limbs; 0 is <<>>.               *)
(***************************************************************************)
Pow2(n) == 2 ^ n

LimbBase == Pow2(15)

Limb(a, i) == IF 1 <= i /\ i <= Len(a) THEN a[i] ELSE 0

RECURSIVE BTrim(_)
BTrim(a) ==
    The({ IF x = <<>> THEN x
          ELSE IF x[Len(x)] = 0 THEN BTrim(SubSeq(x, 1, Len(x) - 1)) ELSE x
          : x \in {a} })

\* limbs of x * d + c for a limb-sized d and c
RECURSIVE BMulSmall(_, _, _)
BMulSmall(a, d, c) ==
    The({ IF x = <<>> THEN (IF k = 0 THEN <<>> ELSE <<k>>)
          ELSE The({ <<t % LimbBase>> \o BMulSmall(Tail(x), m, t \div LimbBase)
                     : t \in {Head(x) * m + k} })
          : x \in {a}, m \in {d}, k \in {c} })

RECURSIVE BAddCarry(_, _, _)
BAddCarry(a, b, c) ==
    The({ IF x = <<>> /\ y = <<>> THEN (IF k = 0 THEN <<>> ELSE <<k>>)
          ELSE The({ <<t % LimbBase>>
                     \o BAddCarry(IF x = <<>> THEN x ELSE Tail(x),
                                  IF y = <<>> THEN y ELSE Tail(y), t \div LimbBase)
                     : t \in {Limb(x, 1) + Limb(y, 1) + k} })
          : x \in {a}, y \in {b}, k \in {c} })

BAdd(a, b) == BAddCarry(a, b, 0)

\* limbs of x - y - c, for x >= y + c
RECURSIVE BSubBorrow(_, _, _)
BSubBorrow(a, b, c) ==
    The({ IF x = <<>> THEN <<>>
          ELSE The({ <<(t + LimbBase) % LimbBase>>
                     \o BSubBorrow(Tail(x), IF y = <<>> THEN y ELSE Tail(y),
                                   IF t < 0 THEN 1 ELSE 0)
                     : t \in {Head(x) - Limb(y, 1) - k} })
          : x \in {a}, y \in {b}, k \in {c} })

BSub(a, b) == BTrim(BSubBorrow(a, b, 0))

RECURSIVE BCmpAt(_, _, _)
BCmpAt(a, b, i) ==
    The({ IF n = 0 THEN 0
          ELSE IF x[n] > y[n] THEN 1
          ELSE IF x[n] < y[n] THEN -1
          ELSE BCmpAt(x, y, n - 1)
          : x \in {a}, y \in {b}, n \in {i} })

\* -1, 0 or 1 as a < b, a = b or a > b
BCmp(a, b) ==
    The({ IF Len(x) > Len(y) THEN 1
          ELSE IF Len(x) < Len(y) THEN -1
          ELSE BCmpAt(x, y, Len(x))
          : x \in {a}, y \in {b} })

RECURSIVE BMul(_, _)
BMul(a, b) ==
    The({ IF x = <<>> \/ y = <<>> THEN <<>>
          ELSE The({ BAdd(BTrim(BMulSmall(x, Head(y), 0)),
                          IF r = <<>> THEN r ELSE <<0>> \o r)
                     : r \in {BMul(x, Tail(y))} })
          : x \in {a}, y \in {b} })

\* x * 2^k
BShl(a, k) ==
    The({ IF x = <<>> THEN x
          ELSE [i \in 1..(n \div 15) |-> 0]
               \o BTrim([i \in 1..(Len(x) + 1) |->
                            ((Limb(x, i) * Pow2(n % 15)) % LimbBase)
                            + (Limb(x, i - 1) \div Pow2(15 - (n % 15)))])
          : x \in {a}, n \in {k} })

\* x \div 2^k
BShr(a, k) ==
    The({ IF Len(x) <= n \div 15 THEN <<>>
          ELSE The({ BTrim([i \in 1..Len(y) |->
                               (y[i] \div Pow2(n % 15))
                               + (Limb(y, i + 1) % Pow2(n % 15)) * Pow2(15 - (n % 15))])
                     : y \in {SubSeq(x, (n \div 15) + 1, Len(x))} })
          : x \in {a}, n \in {k} })

\* x % 2^k
BLow(a, k) ==
    The({ BTrim([i \in 1..(IF Len(x) <= n \div 15 THEN Len(x) ELSE (n \div 15) + 1) |->
                    IF i <= n \div 15 THEN x[i] ELSE x[i] % Pow2(n % 15)])
          : x \in {a}, n \in {k} })

RECURSIVE BitLenSmall(_)
BitLenSmall(n) == The({ IF x = 0 THEN 0 ELSE 1 + BitLenSmall(x \div 2) : x \in {n} })

BBitLen(a) ==
    The({ IF x = <<>> THEN 0 ELSE 15 * (Len(x) - 1) + BitLenSmall(x[Len(x)]) : x \in {a} })

RECURSIVE TzSmall(_)
TzSmall(n) == The({ IF x % 2 = 1 THEN 0 ELSE 1 + TzSmall(x \div 2) : x \in {n} })

\* number of trailing zero bits of x > 0
RECURSIVE BTz(_)
BTz(a) ==
    The({ IF Head(x) = 0 THEN 15 + BTz(Tail(x)) ELSE TzSmall(Head(x)) : x \in {a} })

BBit(a, p) == (Limb(a, (p \div 15) + 1) \div Pow2(p % 15)) % 2

\* one step of long division: the next bit of n is brought down into the
\* remainder qr[2] and the quotient qr[1] gains one bit
BDivBit(n, d, p, qr) ==
    The({ IF BCmp(w, d) >= 0
          THEN <<BMulSmall(qr[1], 2, 1), BSub(w, d)>>
          ELSE <<BMulSmall(qr[1], 2, 0), w>>
          : w \in {BMulSmall(qr[2], 2, BBit(n, p))} })

\* long division over the bits hi down to lo of n
RECURSIVE BDivBits(_, _, _, _, _)
BDivBits(n, d, hi, lo, qr) ==
    The({ IF h < l THEN s
          ELSE IF h = l THEN BDivBit(x, y, h, s)
          ELSE The({ BDivBits(x, y, (h + l) \div 2, l, t)
                     : t \in {BDivBits(x, y, h, ((h + l) \div 2) + 1, s)} })
          : x \in {n}, y \in {d}, h \in {hi}, l \in {lo}, s \in {qr} })

\* <<quotient, remainder>> of n by d > 0
BDivMod(n, d) == The({ BDivBits(x, d, BBitLen(x) - 1, 0, <<<<>>, <<>>>>) : x \in {n} })

RECURSIVE BFromNat(_)
BFromNat(n) ==
    The({ IF x = 0 THEN <<>> ELSE <<x % LimbBase>> \o BFromNat(x \div LimbBase) : x \in {n} })

(***************************************************************************)
(* Python floats: IEEE-754 binary64 with round-to-nearest, ties-to-even.   *)
(* A float is <<s, m, e>> with the value (-1)^s * m * 2^e, m an odd        *)
(* natural of at most 53 bits; 0.0 is <<0, <<>>, 0>>.  Exponent range,     *)
(* subnormals, infinities, NaN and the sign of zero are left out.          *)
(***************************************************************************)
Zero == <<0, <<>>, 0>>

\* the representation of m * 2^e without trailing zero bits in m
FCanon(s, m, e) ==
    The({ IF x = <<>> THEN Zero
          ELSE The({ <<s, BShr(x, tz), e + tz>> : tz \in {BTz(x)} })
          : x \in {m} })

\* the float nearest to (-1)^s * (m + f) * 2^e, where 0 < f < 1 when
\* sticky and f = 0 otherwise; halfway cases go to the even mantissa
FRound(s, m, e, sticky) ==
    The({ IF len <= 53 THEN FCanon(s, x, e)
          ELSE The({ The({ FCanon(s, IF c > 0 \/ (c = 0 /\ (sticky \/ Limb(q, 1) % 2 = 1))
                                     THEN BAdd(q, <<1>>) ELSE q,
                                  e + sh)
                           : q \in {BShr(x, sh)},
                             c \in {BCmp(BLow(x, sh), BShl(<<1>>, sh - 1))} })
                     : sh \in {len - 53} })
          : x \in {m}, len \in {BBitLen(m)} })

\* float(n) for an integer n
FInt(n) == IF n < 0 THEN FCanon(1, BFromNat(-n), 0) ELSE FCanon(0, BFromNat(n), 0)

FNeg(a) == The({ IF x[2] = <<>> THEN x ELSE <<1 - x[1], x[2], x[3]>> : x \in {a} })

\* a * b
FMul(a, b) ==
    The({ IF x[2] = <<>> \/ y[2] = <<>> THEN Zero
          ELSE FRound((x[1] + y[1]) % 2, BMul(x[2], y[2]), x[3] + y[3], FALSE)
          : x \in {a}, y \in {b} })

\* a + b
FAdd(a, b) ==
    The({ IF x[2] = <<>> THEN y
          ELSE IF y[2] = <<>> THEN x
          ELSE The({ The({ IF x[1] = y[1] THEN FRound(x[1], BAdd(p, q), e, FALSE)
                           ELSE IF BCmp(p, q) >= 0 THEN FRound(x[1], BSub(p, q), e, FALSE)
                           ELSE FRound(y[1], BSub(q, p), e, FALSE)
                           : p \in {BShl(x[2], x[3] - e)}, q \in {BShl(y[2], y[3] - e)} })
                     : e \in {IF x[3] < y[3] THEN x[3] ELSE y[3]} })
          : x \in {a}, y \in {b} })

\* a - b
FSub(a, b) == FAdd(a, FNeg(b))

\* a / b for b # 0
FDiv(a, b) ==
    The({ IF x[2] = <<>> THEN Zero
          ELSE The({ The({ FRound((x[1] + y[1]) % 2, qr[1], x[3] - y[3] - k, qr[2] # <<>>)
                           : qr \in {BDivMod(BShl(x[2], k), y[2])} })
                     : k \in {IF BBitLen(y[2]) + 55 > BBitLen(x[2])
                              THEN BBitLen(y[2]) + 55 - BBitLen(x[2]) ELSE 0} })
          : x \in {a}, y \in {b} })

FNegative(a) == a[1] = 1 /\ a[2] # <<>>

FLess(a, b) == FNegative(FSub(a, b))

One == FInt(1)
None == <<-1, <<>>, 0>>

FPositive(a) == a[1] = 0 /\ a[2] # <<>>

(***************************************************************************)
(* Configuration: config.BRIDGE.symbol and config.SUPPORTED_COIN_LIST.     *)
(***************************************************************************)
BRIDGE == "B"
SUPPORTED_COIN_LIST == <<"X", "Y">>
Coins == {SUPPORTED_COIN_LIST[i] : i \in 1..Len(SUPPORTED_COIN_LIST)}
Symbols == Coins \cup {BRIDGE}
Pairs == {c \o BRIDGE : c \in Coins}
Times == 0..(MaxEnd + 2)
Keys == Pairs \X Times

(***************************************************************************)
(* Python dict operations on the balance ledger and the price cache.       *)
(***************************************************************************)
EmptyDict == [k \in {} |-> Zero]

DictSet(d, k, v) == [x \in (DOMAIN d) \cup {k} |-> IF x = k THEN v ELSE d[x]]

(***************************************************************************)
(* The historical kline source, an external collaborator: for every        *)
(* (pair, minute) either the open price of that minute's kline or None     *)
(* when the exchange returns no kline.  The table is fixed for a run.  One  *)
(* pair is quoted at 2.0 and 4.0 in turn, the other at 3.0, a price that   *)
(* does not divide every balance exactly.                                  *)
(***************************************************************************)
OpenPrice(pair, t) == IF pair = "X" \o BRIDGE THEN FInt(2 + 2 * (t % 2)) ELSE FInt(3)

GapSets == { {}, {<<"XB", 0>>, <<"YB", 1>>, <<"XB", 2>>} }

KlineTable(gaps) == [k \in Keys |-> IF k \in gaps THEN None ELSE OpenPrice(k[1], k[2])]

(***************************************************************************)
(* The cache directory ".cache" outlives a run: a run finds in it what     *)
(* earlier runs and prefetches stored, the source's price under each key   *)
(* they looked up and the source had a kline for.                          *)
(***************************************************************************)
EarlierLookups == { {}, {<<"XB", 0>>, <<"YB", 0>>, <<"XB", 1>>} }

CacheLeftBy(keys, table) == [k \in {x \in keys : table[x] # None} |-> table[k]]

(***************************************************************************)
(* Arguments backtest() is called with.                                    *)
(***************************************************************************)
StartDates == {0, 1}
EndDates == 0..MaxEnd
Intervals == {1, 2}
StartBalanceArgs ==
    { EmptyDict,
      [s \in {"X"} |-> FInt(8)],
      [s \in {"X", BRIDGE} |-> IF s = "X" THEN FInt(8) ELSE FInt(10)] }

VARIABLES
    pc,            \* position of the backtest() process
    datetime,      \* manager.datetime, the virtual clock
    balances,      \* manager.balances, the ledger (a dict: symbol -> quantity)
    cache,         \* the module-level diskcache Cache (a dict: key -> price)
    call,          \* frame of the exchange call in progress
    depth,         \* nested get_market_ticker_price frames above the first
    val,           \* value the price lookup returned
    error,         \* exception that ended the run, "" when none
    result,        \* what backtest() returned (None-dict until it returns)
    cancelled,     \* a KeyboardInterrupt was delivered
    nOrders,       \* orders started in this run
    nCalls,        \* exchange calls the strategy has made in this run
    start_date, end_date, interval, starting_coin, klines,
    cacheAtStart,  \* the cache as the run found it
    tickLog,       \* clock value at each scout() invocation, in order
    nInc,          \* increment() calls so far
    nInit,         \* initialize_trade_thresholds() calls so far
    srcCalls,      \* per key: get_historical_klines calls that returned (counted up to 3)
    srcPriced,     \* per key: get_historical_klines calls that returned a kline
    lookupsDone,   \* per key: price lookups that returned (counted up to 3)
    results,       \* per key: set of values the lookups returned
    lastFill,      \* the last order that completed
    wPc,           \* per coin: position of that coin's _thread process
    wClock,        \* per coin: manager.datetime of the worker's own manager
    wDepth,        \* per coin: nested get_market_ticker_price frames of the worker
    wVal,          \* per coin: price fetched and not yet stored
    wTmp,          \* per coin: counter value read by `counter.value += 1`
    counter,       \* per coin: the shared Value("i", 0) of that worker
    wLooked,       \* per coin: clock values whose lookup has returned to _thread
    supPc,         \* position of download_market_data's own process
    supIdx,        \* index in `processes` of the next Value the sum reads
    supTotal,      \* the sum of line 185 over the Values read so far
    report         \* the values the supervisor printed last

inputs == <<start_date, end_date, interval, starting_coin, klines, cacheAtStart>>
hist == <<tickLog, nInc, nInit, srcCalls, srcPriced, lookupsDone, results, lastFill>>
workers == <<wPc, wClock, wDepth, wVal, wTmp, counter, wLooked>>
supervisor == <<supPc, supIdx, supTotal, report>>
pfv == <<workers, supervisor>>
vars == <<pc, datetime, balances, cache, call, depth, val, error, result, cancelled,
          nOrders, nCalls, inputs, hist, pfv>>

NoCall == [op |-> "", origin |-> "", target |-> "", bal |-> None, q |-> None,
           ob |-> None, tb |-> None, cont |-> ""]
NoFill == [op |-> "", origin |-> "", target |-> "", q |-> None, price |-> None,
           ob |-> None, tb |-> None, oa |-> None, ta |-> None, at |-> 0,
           newOrigin |-> FALSE]
\* nothing printed yet
NoReport == [total |-> -1, avg |-> -1, at |-> -1]

\* download_market_data() is not running: no worker, no supervisor
PrefetchIdle ==
    /\ wPc = [c \in Coins |-> "off"]
    /\ wClock = [c \in Coins |-> 0]
    /\ wDepth = [c \in Coins |-> 0]
    /\ wVal = [c \in Coins |-> None]
    /\ wTmp = [c \in Coins |-> 0]
    /\ counter = [c \in Coins |-> 0]
    /\ wLooked = [c \in Coins |-> {}]
    /\ supPc = "off"
    /\ supIdx = 0
    /\ supTotal = 0
    /\ report = NoReport

(***************************************************************************)
(* MockBinanceManager                                                      *)
(***************************************************************************)
\* __init__: self.balances = start_balances or {config.BRIDGE.symbol: 100}
InitialBalances(arg) ==
    IF DOMAIN arg = {} THEN [s \in {BRIDGE} |-> FInt(100)] ELSE arg

\* increment(interval): self.datetime += timedelta(minutes=interval)
increment(dt, minutes) == dt + minutes

\* get_fee: 0.0075, the double that literal denotes
get_fee == <<0, <<9175, 31457, 23592, 30>>, -57>>

\* get_currency_balance: self.balances.get(currency_symbol, 0)
get_currency_balance(b, s) == IF s \in DOMAIN b THEN b[s] ELSE Zero

\* mutant: the key is built without the ticker symbol
CacheKey_NoSymbol(ticker_symbol, dt) == <<SUPPORTED_COIN_LIST[1] \o BRIDGE, dt>>

\* get_market_ticker_price: key = f"{ticker_symbol}_{dt}"
CacheKey(ticker_symbol, dt) == <<ticker_symbol, dt>>

\* line 64: get_historical_klines(ticker_symbol, "1m", dt, dt), the open
\* price of the first kline as a float, or None when the list is empty
SourceKline(ticker_symbol, dt) == klines[<<ticker_symbol, dt>>]

\* BinanceAPIManager._buy_quantity: all of the target balance at the price
buy_quantity(target_balance, price) == FDiv(target_balance, price)

\* BinanceAPIManager._sell_quantity: all of the origin balance
sell_quantity(origin_balance) == origin_balance

\* buy_alt: self.balances[target_symbol] -= order_quantity * from_coin_price
BuyTargetDebit(bal, q, price) == FSub(bal, FMul(q, price))

\* mutant: the received leg is credited without the fee
BuyOriginCredit_NoFee(bal, q) == FAdd(bal, q)

\* buy_alt: self.balances.get(origin_symbol, 0) + order_quantity * (1 - fee)
BuyOriginCredit(bal, q) == FAdd(bal, FMul(q, FSub(One, get_fee)))

\* mutant: the fee rate is subtracted from the price instead of scaling the proceeds
SellTargetCredit_FeeOnPrice(bal, q, price) ==
    FAdd(bal, FMul(q, FSub(price, get_fee)))

\* sell_alt: self.balances.get(target_symbol, 0) + target_quantity * (1 - fee)
SellTargetCredit(bal, q, price) == FAdd(bal, FMul(FMul(q, price), FSub(One, get_fee)))

\* sell_alt: self.balances[origin_symbol] -= order_quantity
SellOriginDebit(bal, q) == FSub(bal, q)

\* mutant: the loop also runs the tick at the end date
LoopCondition_Inclusive(dt, end) == dt <= end

\* backtest: while manager.datetime < end_date
LoopCondition(dt, end) == dt < end

(***************************************************************************)
(* Initial state: backtest() has built the manager (lines 130-139); the    *)
(* module's cache (line 18) is opened on what earlier runs stored.         *)
(***************************************************************************)
\* line 18: cache = Cache(".cache")
CacheOpened ==
    /\ \E keys \in EarlierLookups : cache = CacheLeftBy(keys, klines)
    /\ cacheAtStart = cache

\* lines 130-139: the manager holds the start clock and the start ledger,
\* nothing has been called yet
BacktestStarted ==
    /\ starting_coin \in Coins
    /\ \E arg \in StartBalanceArgs : balances = InitialBalances(arg)
    /\ datetime = start_date
    /\ pc = "start"
    /\ call = NoCall
    /\ depth = 0
    /\ val = None
    /\ error = ""
    /\ result = EmptyDict
    /\ cancelled = FALSE
    /\ nOrders = 0
    /\ nCalls = 0
    /\ tickLog = <<>>
    /\ nInc = 0
    /\ nInit = 0
    /\ srcCalls = [k \in Keys |-> 0]
    /\ srcPriced = [k \in Keys |-> 0]
    /\ lookupsDone = [k \in Keys |-> 0]
    /\ results = [k \in Keys |-> {}]
    /\ lastFill = NoFill

Init ==
    /\ start_date \in StartDates
    /\ end_date \in EndDates
    /\ interval \in Intervals
    /\ \E gaps \in GapSets : klines = KlineTable(gaps)
    /\ CacheOpened
    /\ BacktestStarted
    /\ PrefetchIdle

(***************************************************************************)
(* Entering the exchange operations.                                       *)
(***************************************************************************)
\* buy_alt lines 81-85: read the target balance, then look the price up
EnterBuy(origin, target, cont) ==
    /\ call' = [op |-> "buy", origin |-> origin, target |-> target,
                bal |-> get_currency_balance(balances, target), q |-> None,
                ob |-> get_currency_balance(balances, origin),
                tb |-> get_currency_balance(balances, target), cont |-> cont]
    /\ depth' = 0
    /\ pc' = "lookup"
    /\ nOrders' = nOrders + 1

\* sell_alt lines 96-100: read the origin balance, then look the price up
EnterSell(origin, target, cont) ==
    /\ call' = [op |-> "sell", origin |-> origin, target |-> target,
                bal |-> get_currency_balance(balances, origin), q |-> None,
                ob |-> get_currency_balance(balances, origin),
                tb |-> get_currency_balance(balances, target), cont |-> cont]
    /\ depth' = 0
    /\ pc' = "lookup"
    /\ nOrders' = nOrders + 1

\* a bare get_market_ticker_price(origin + target) call
EnterPrice(origin, target, cont) ==
    /\ call' = [op |-> "price", origin |-> origin, target |-> target,
                bal |-> None, q |-> None, ob |-> None, tb |-> None, cont |-> cont]
    /\ depth' = 0
    /\ pc' = "lookup"
    /\ UNCHANGED nOrders

(***************************************************************************)
(* backtest(), lines 141-147.                                              *)
(***************************************************************************)
\* mutant: the opening buy is made whatever the starting coin's balance
OpeningPosition_Unconditional ==
    /\ pc = "start"
    /\ EnterBuy(starting_coin, BRIDGE, "thresholds")
    /\ UNCHANGED <<datetime, balances, cache, val, error, result, cancelled, nCalls,
                   inputs, pfv, hist>>

\* lines 141-144: the opening buy when the starting coin's balance is 0
OpeningPosition ==
    /\ pc = "start"
    /\ IF get_currency_balance(balances, starting_coin) = Zero
       THEN EnterBuy(starting_coin, BRIDGE, "thresholds")
       ELSE pc' = "thresholds" /\ UNCHANGED <<call, depth, nOrders>>
    /\ UNCHANGED <<datetime, balances, cache, val, error, result, cancelled, nCalls,
                   inputs, pfv, hist>>

\* mutant: the loop is entered without the thresholds call
InitializeThresholds_Skipped ==
    /\ pc = "thresholds"
    /\ pc' = "try"
    /\ UNCHANGED <<datetime, balances, cache, call, depth, val, error, result,
                   cancelled, nOrders, nCalls, inputs, pfv, hist>>

\* lines 146-147: trader.initialize_trade_thresholds()
InitializeThresholds ==
    /\ pc = "thresholds"
    /\ pc' = "try"
    /\ nInit' = nInit + 1
    /\ UNCHANGED <<datetime, balances, cache, call, depth, val, error, result,
                   cancelled, nOrders, nCalls, inputs, pfv,
                   tickLog, nInc, srcCalls, srcPriced, lookupsDone, results, lastFill>>

\* line 149: the try statement is entered; until then the handler of
\* lines 154-155 is not in force
EnterTry ==
    /\ pc = "try"
    /\ pc' = "loop"
    /\ UNCHANGED <<datetime, balances, cache, call, depth, val, error, result,
                   cancelled, nOrders, nCalls, inputs, pfv, hist>>

(***************************************************************************)
(* backtest(), the tick loop of lines 149-156.                             *)
(***************************************************************************)
\* line 150 true: print the clock and enter trader.scout()
LoopEnter ==
    /\ pc = "loop"
    /\ LoopCondition(datetime, end_date)
    /\ pc' = "scout"
    /\ tickLog' = Append(tickLog, datetime)
    /\ UNCHANGED <<datetime, balances, cache, call, depth, val, error, result,
                   cancelled, nOrders, nCalls, inputs, pfv,
                   nInc, nInit, srcCalls, srcPriced, lookupsDone, results, lastFill>>

\* line 150 false: the loop and the try statement are left
LoopExit ==
    /\ pc = "loop"
    /\ ~LoopCondition(datetime, end_date)
    /\ pc' = "return"
    /\ UNCHANGED <<datetime, balances, cache, call, depth, val, error, result,
                   cancelled, nOrders, nCalls, inputs, pfv, hist>>

\* line 156: return manager.balances, after the try statement
ReturnBalances ==
    /\ pc = "return"
    /\ pc' = "returned"
    /\ result' = balances
    /\ UNCHANGED <<datetime, balances, cache, call, depth, val, error, cancelled,
                   nOrders, nCalls, inputs, pfv, hist>>

\* line 153: manager.increment(interval)
Increment ==
    /\ pc = "increment"
    /\ datetime' = increment(datetime, interval)
    /\ nInc' = nInc + 1
    /\ pc' = "loop"
    /\ UNCHANGED <<balances, cache, call, depth, val, error, result, cancelled,
                   nOrders, nCalls, inputs, pfv,
                   tickLog, nInit, srcCalls, srcPriced, lookupsDone, results, lastFill>>

(***************************************************************************)
(* trader.scout(): the strategy, an external collaborator.  Within one     *)
(* evaluation it may look prices up and place orders against the bridge,   *)
(* and then returns.                                                       *)
(***************************************************************************)
ScoutGetPrice ==
    /\ pc = "scout"
    /\ nCalls < MaxCalls
    /\ \E c \in Coins : EnterPrice(c, BRIDGE, "scout")
    /\ nCalls' = nCalls + 1
    /\ UNCHANGED <<datetime, balances, cache, val, error, result, cancelled,
                   inputs, pfv, hist>>

ScoutBuy ==
    /\ pc = "scout"
    /\ nCalls < MaxCalls
    /\ nOrders < MaxOrders
    /\ \E c \in Coins : EnterBuy(c, BRIDGE, "scout")
    /\ nCalls' = nCalls + 1
    /\ UNCHANGED <<datetime, balances, cache, val, error, result, cancelled,
                   inputs, pfv, hist>>

ScoutSell ==
    /\ pc = "scout"
    /\ nCalls < MaxCalls
    /\ nOrders < MaxOrders
    /\ \E c \in Coins : EnterSell(c, BRIDGE, "scout")
    /\ nCalls' = nCalls + 1
    /\ UNCHANGED <<datetime, balances, cache, val, error, result, cancelled,
                   inputs, pfv, hist>>

ScoutReturn ==
    /\ pc = "scout"
    /\ pc' = "increment"
    /\ UNCHANGED <<datetime, balances, cache, call, depth, val, error, result,
                   cancelled, nOrders, nCalls, inputs, pfv, hist>>

(***************************************************************************)
(* get_market_ticker_price, lines 55-72, statement by statement: the       *)
(* cache.get of line 61, the source call of line 64, the cache.set of      *)
(* line 65.                                                                *)
(***************************************************************************)
\* mutant: the key is built for the first minute, not for the clock
LookupKey_FirstMinute == CacheKey(call.origin \o call.target, 0)

\* lines 57-60: the key of the lookup in progress
LookupKey == CacheKey(call.origin \o call.target, datetime)

\* mutant: the fetched price is returned but never stored
CacheAfterFetch_NotStored(c, key, v) == c

\* line 65: cache.set(key, val)
CacheAfterFetch(c, key, v) == DictSet(c, key, v)

\* mutant: a placeholder price is stored for the minute without data
CacheAfterNoData_Stored(c, key) == DictSet(c, key, Zero)

\* lines 69-70: except IndexError: return None (nothing is stored)
CacheAfterNoData(c, key) == c

\* history counters tell 0, 1, 2 and "more than 2" apart
Counted(n) == IF n < 3 THEN n + 1 ELSE n

\* the value handed back to the caller is recorded per key; the nested
\* frames, if any, have returned
Returned(key, v) ==
    /\ val' = v
    /\ depth' = 0
    /\ lookupsDone' = [lookupsDone EXCEPT ![key] = Counted(@)]
    /\ results' = [results EXCEPT ![key] = @ \cup {v}]
    /\ pc' = "gotprice"

\* line 64: the symbol and minute the source is asked for
SourceKey == <<call.origin \o call.target, datetime>>

\* lines 61-62, 72: cache.get finds the key
LookupHit ==
    /\ pc = "lookup"
    /\ LookupKey \in DOMAIN cache
    /\ Returned(LookupKey, cache[LookupKey])
    /\ UNCHANGED <<datetime, balances, cache, call, error, result, cancelled,
                   nOrders, nCalls, inputs, pfv,
                   tickLog, nInc, nInit, srcCalls, srcPriced, lastFill>>

\* lines 61-63: cache.get returns None, the try block of line 63 is entered
LookupMiss ==
    /\ pc = "lookup"
    /\ LookupKey \notin DOMAIN cache
    /\ pc' = "fetch"
    /\ UNCHANGED <<datetime, balances, cache, call, depth, val, error, result,
                   cancelled, nOrders, nCalls, inputs, pfv, hist>>

\* line 64: the source returns a kline, val is its open price
LookupFetch ==
    /\ pc = "fetch"
    /\ SourceKline(SourceKey[1], SourceKey[2]) # None
    /\ val' = SourceKline(SourceKey[1], SourceKey[2])
    /\ srcCalls' = [srcCalls EXCEPT ![SourceKey] = Counted(@)]
    /\ srcPriced' = [srcPriced EXCEPT ![SourceKey] = @ + 1]
    /\ pc' = "store"
    /\ UNCHANGED <<datetime, balances, cache, call, depth, error, result, cancelled,
                   nOrders, nCalls, inputs, pfv,
                   tickLog, nInc, nInit, lookupsDone, results, lastFill>>

\* line 65, 72: cache.set(key, val), then val is returned
LookupStore ==
    /\ pc = "store"
    /\ cache' = CacheAfterFetch(cache, LookupKey, val)
    /\ Returned(LookupKey, val)
    /\ UNCHANGED <<datetime, balances, call, error, result, cancelled,
                   nOrders, nCalls, inputs, pfv,
                   tickLog, nInc, nInit, srcCalls, srcPriced, lastFill>>

\* lines 64, 69-70: the source returns no kline, [0] raises IndexError
LookupNoData ==
    /\ pc = "fetch"
    /\ SourceKline(SourceKey[1], SourceKey[2]) = None
    /\ cache' = CacheAfterNoData(cache, LookupKey)
    /\ srcCalls' = [srcCalls EXCEPT ![SourceKey] = Counted(@)]
    /\ Returned(LookupKey, None)
    /\ UNCHANGED <<datetime, balances, call, error, result, cancelled,
                   nOrders, nCalls, inputs, pfv, tickLog, nInc, nInit, srcPriced, lastFill>>

\* a further nested frame is refused once the interpreter's limit is reached
RecursionAllowed(d) == d < MaxRecursionDepth

\* mutant: the failure is swallowed and the loop goes on to the next tick
Raise_Swallowed(name) ==
    /\ pc' = "increment"
    /\ error' = name

\* an exception nothing catches: it ends backtest() without a return value
Raise(name) ==
    /\ pc' = "crashed"
    /\ error' = name

\* lines 64, 66-68: ConnectionError, sleep, then the method calls itself
\* and reads the cache again
LookupConnectionError ==
    /\ pc = "fetch"
    /\ IF RecursionAllowed(depth)
       THEN /\ depth' = depth + 1
            /\ pc' = "lookup"
            /\ UNCHANGED error
       ELSE /\ Raise("RecursionError")
            /\ UNCHANGED depth
    /\ UNCHANGED <<datetime, balances, cache, call, val, result, cancelled,
                   nOrders, nCalls, inputs, pfv, hist>>

\* line 64: any other failure of the source (BinanceAPIException) is not caught
LookupAPIError ==
    /\ pc = "fetch"
    /\ Raise("BinanceAPIException")
    /\ UNCHANGED <<datetime, balances, cache, call, depth, val, result, cancelled,
                   nOrders, nCalls, inputs, pfv, hist>>

(***************************************************************************)
(* Returning from the lookup into the caller.                              *)
(***************************************************************************)
\* the strategy's own get_market_ticker_price call returns to scout()
PriceReturn ==
    /\ pc = "gotprice"
    /\ call.op = "price"
    /\ pc' = call.cont
    /\ call' = NoCall
    /\ UNCHANGED <<datetime, balances, cache, depth, val, error, result, cancelled,
                   nOrders, nCalls, inputs, pfv, hist>>

\* the order's record once both legs are applied
Fill(b) ==
    [op |-> call.op, origin |-> call.origin, target |-> call.target,
     q |-> call.q, price |-> val, ob |-> call.ob, tb |-> call.tb,
     oa |-> b[call.origin], ta |-> b[call.target], at |-> datetime,
     newOrigin |-> call.origin \notin DOMAIN balances]

(***************************************************************************)
(* buy_alt, lines 87-93.                                                   *)
(***************************************************************************)
\* lines 87-89: size the order and debit the target (paid) leg
BuyDebit ==
    /\ pc = "gotprice"
    /\ call.op = "buy"
    /\ IF val = None
       THEN Raise("TypeError") /\ UNCHANGED <<balances, call>>
       ELSE IF call.target \notin DOMAIN balances
       THEN Raise("KeyError") /\ UNCHANGED <<balances, call>>
       ELSE LET q == buy_quantity(call.bal, val) IN
            /\ balances' = DictSet(balances, call.target,
                                   BuyTargetDebit(balances[call.target], q, val))
            /\ call' = [call EXCEPT !.q = q]
            /\ pc' = "buy2"
            /\ UNCHANGED error
    /\ UNCHANGED <<datetime, cache, depth, val, result, cancelled,
                   nOrders, nCalls, inputs, pfv, hist>>

\* lines 90-93: credit the origin (received) leg net of the fee, return
BuyCredit ==
    /\ pc = "buy2"
    /\ balances' = DictSet(balances, call.origin,
                           BuyOriginCredit(get_currency_balance(balances, call.origin),
                                           call.q))
    /\ lastFill' = Fill(balances')
    /\ pc' = call.cont
    /\ call' = NoCall
    /\ UNCHANGED <<datetime, cache, depth, val, error, result, cancelled,
                   nOrders, nCalls, inputs, pfv,
                   tickLog, nInc, nInit, srcCalls, srcPriced, lookupsDone, results>>

(***************************************************************************)
(* sell_alt, lines 102-108.                                                *)
(***************************************************************************)
\* lines 102-106: size the order and credit the target (received) leg
SellCredit ==
    /\ pc = "gotprice"
    /\ call.op = "sell"
    /\ IF val = None
       THEN Raise("TypeError") /\ UNCHANGED <<balances, call>>
       ELSE LET q == sell_quantity(call.bal) IN
            /\ balances' = DictSet(balances, call.target,
                                   SellTargetCredit(
                                       get_currency_balance(balances, call.target),
                                       q, val))
            /\ call' = [call EXCEPT !.q = q]
            /\ pc' = "sell2"
            /\ UNCHANGED error
    /\ UNCHANGED <<datetime, cache, depth, val, result, cancelled,
                   nOrders, nCalls, inputs, pfv, hist>>

\* lines 107-108: debit the origin (paid) leg, return
SellDebit ==
    /\ pc = "sell2"
    /\ IF call.origin \notin DOMAIN balances
       THEN Raise("KeyError") /\ UNCHANGED <<balances, call, lastFill>>
       ELSE /\ balances' = DictSet(balances, call.origin,
                                   SellOriginDebit(balances[call.origin], call.q))
            /\ lastFill' = Fill(balances')
            /\ pc' = call.cont
            /\ call' = NoCall
            /\ UNCHANGED error
    /\ UNCHANGED <<datetime, cache, depth, val, result, cancelled,
                   nOrders, nCalls, inputs, pfv,
                   tickLog, nInc, nInit, srcCalls, srcPriced, lookupsDone, results>>

(***************************************************************************)
(* KeyboardInterrupt: it can be delivered wherever the process is; a run   *)
(* is sent one.                                                            *)
(***************************************************************************)
\* the process is inside the try statement: at the loop test of line 150
\* or in the loop body, lines 151-153
InTry ==
    \/ pc \in {"loop", "scout", "increment"}
    \/ /\ pc \in {"lookup", "fetch", "store", "gotprice", "buy2", "sell2"}
       /\ call.cont = "scout"

Running == pc \notin {"returned", "crashed"}

\* mutant: the loop has no handler for KeyboardInterrupt
InterruptOutcome_Uncaught(inTry) == "crashed"

\* lines 154-155: except KeyboardInterrupt: pass leads to the return of
\* line 156; anywhere else the exception leaves backtest()
InterruptOutcome(inTry) == IF inTry THEN "return" ELSE "crashed"

KeyboardInterrupt ==
    /\ Running
    /\ ~cancelled
    /\ cancelled' = TRUE
    /\ pc' = InterruptOutcome(InTry)
    /\ error' = IF pc' = "crashed" THEN "KeyboardInterrupt" ELSE error
    /\ UNCHANGED <<datetime, balances, cache, call, depth, val, result,
                   nOrders, nCalls, inputs, pfv, hist>>

Next ==
    \/ OpeningPosition
    \/ InitializeThresholds
    \/ EnterTry
    \/ LoopEnter
    \/ LoopExit
    \/ ReturnBalances
    \/ Increment
    \/ ScoutGetPrice
    \/ ScoutBuy
    \/ ScoutSell
    \/ ScoutReturn
    \/ LookupHit
    \/ LookupMiss
    \/ LookupFetch
    \/ LookupStore
    \/ LookupNoData
    \/ LookupConnectionError
    \/ LookupAPIError
    \/ PriceReturn
    \/ BuyDebit
    \/ BuyCredit
    \/ SellCredit
    \/ SellDebit
    \/ KeyboardInterrupt

Spec == Init /\ [][Next]_vars

(***************************************************************************)
(* The same program under fair scheduling of its single process, for one   *)
(* ledger: the default {BRIDGE: 100}.                                      *)
(***************************************************************************)
InitFair == Init /\ balances = InitialBalances(EmptyDict)

FairSpec == InitFair /\ [][Next]_vars /\ WF_vars(Next)

(***************************************************************************)
(* Properties.                                                             *)
(***************************************************************************)
\* the double nearest to 0.0075: 0x1.eb851eb851eb8p-8
FeeRate == <<0, <<9175, 31457, 23592, 30>>, -57>>

\* C1 (as claimed): balance non-negativity.  From a ledger without negative
\* entries, after any sequence of buy_alt and sell_alt calls sized from the
\* whole available balance, every balance in the ledger is >= 0.
BalancesNonNegative ==
    /\ \A s \in DOMAIN balances : ~FNegative(balances[s])
    /\ \A s \in DOMAIN result : ~FNegative(result[s])

\* the step in which buy_alt applies its second leg and returns
BuyFilled == pc = "buy2" /\ pc' = call.cont

\* the step in which sell_alt applies its second leg and returns
SellFilled == pc = "sell2" /\ pc' = call.cont

\* C2 (as claimed): fee conservation on buy.  A completed buy with order
\* quantity q has lowered the target balance by exactly q * price and raised
\* the origin balance by exactly q * (1 - 0.0075): the difference of the
\* balance after and the balance before is that amount.
FeeConservationOnBuy ==
    [][BuyFilled =>
         /\ FSub(lastFill'.tb, lastFill'.ta) = FMul(lastFill'.q, lastFill'.price)
         /\ FSub(lastFill'.oa, lastFill'.ob) = FMul(lastFill'.q, FSub(One, FeeRate))]_vars

\* C2 (amended): a completed buy with order quantity q has left in the
\* ledger, as target balance, the float nearest to the balance before minus
\* the float q * price and, as origin balance, the float nearest to the
\* balance before plus the float q * (1 - 0.0075); an origin symbol that was
\* not in the ledger counts as balance 0 before the credit, and its balance
\* is then the float q * (1 - 0.0075) itself.
FeeConservationOnBuyRounded ==
    [][BuyFilled =>
         /\ lastFill'.op = "buy"
         /\ get_fee = FeeRate
         /\ balances'[lastFill'.target] = lastFill'.ta
         /\ balances'[lastFill'.origin] = lastFill'.oa
         /\ lastFill'.ta = FSub(lastFill'.tb, FMul(lastFill'.q, lastFill'.price))
         /\ lastFill'.oa = FAdd(lastFill'.ob, FMul(lastFill'.q, FSub(One, FeeRate)))
         /\ lastFill'.newOrigin =>
                /\ lastFill'.ob = Zero
                /\ lastFill'.oa = FMul(lastFill'.q, FSub(One, FeeRate))]_vars

\* C2 witness: a buy of a positive quantity of a coin the ledger already
\* held 8 of, so that the credit is added to a balance
FeeConservationOnBuyWitness ==
    /\ lastFill.op = "buy"
    /\ ~lastFill.newOrigin
    /\ FPositive(lastFill.q)
    /\ FPositive(lastFill.ob)

\* C3 (as claimed): sell accounting.  A completed sell sold the entire
\* origin balance q at the price of the pair origin+target at the current
\* clock time, raised the target balance by exactly q * price * (1 - 0.0075)
\* and lowered the origin balance by exactly q.
SellAccounting ==
    [][SellFilled =>
         /\ lastFill'.q = lastFill'.ob
         /\ lastFill'.price = klines[<<lastFill'.origin \o lastFill'.target, lastFill'.at>>]
         /\ FSub(lastFill'.ta, lastFill'.tb) =
                FMul(FMul(lastFill'.q, lastFill'.price), FSub(One, FeeRate))
         /\ FSub(lastFill'.ob, lastFill'.oa) = lastFill'.q]_vars

\* C3 (amended): a completed sell sold the entire origin balance q at the
\* price of the pair origin+target at the current clock time; it left in the
\* ledger, as target balance, the float nearest to the balance before plus
\* the float q * price * (1 - 0.0075), and as origin balance exactly 0.
SellAccountingRounded ==
    [][SellFilled =>
         /\ lastFill'.op = "sell"
         /\ lastFill'.q = lastFill'.ob
         /\ lastFill'.price = klines[<<lastFill'.origin \o lastFill'.target, lastFill'.at>>]
         /\ balances'[lastFill'.target] = lastFill'.ta
         /\ balances'[lastFill'.origin] = lastFill'.oa
         /\ lastFill'.ta = FAdd(lastFill'.tb,
                                FMul(FMul(lastFill'.q, lastFill'.price),
                                     FSub(One, FeeRate)))
         /\ lastFill'.oa = Zero
         /\ FSub(lastFill'.ob, lastFill'.oa) = lastFill'.q]_vars

\* C3 witness: a sell of a positive quantity at a positive price has been
\* credited to a target balance that was not 0
SellAccountingWitness ==
    /\ lastFill.op = "sell"
    /\ FPositive(lastFill.q)
    /\ FPositive(lastFill.price)
    /\ FPositive(lastFill.tb)

\* number of clock values start + k * interval that lie before the end date
TicksBefore(s, e, i) == IF s < e THEN ((e - s - 1) \div i) + 1 ELSE 0

\* every evaluation so far was made at start + k * interval, before the end
TicksInOrder ==
    \A j \in 1..Len(tickLog) :
        /\ tickLog[j] = start_date + (j - 1) * interval
        /\ tickLog[j] < end_date

\* a run that returns uncancelled evaluated every tick before the end once
TicksComplete ==
    (pc = "returned" /\ ~cancelled) =>
        /\ Len(tickLog) = TicksBefore(start_date, end_date, interval)
        /\ result = balances

\* C4: loop termination and tick count.  Without cancellation and fatal
\* error the loop ends and returns the ledger after evaluating the strategy
\* exactly once at each clock value start + k * interval below the end date,
\* and never at a clock value at or after the end date.
LoopTerminatesWithExactTicks ==
    /\ <>(~Running)
    /\ [](TicksInOrder /\ TicksComplete)

\* C4 witness: an uncancelled run returned after two ticks
LoopTerminatesWitness ==
    /\ pc = "returned"
    /\ ~cancelled
    /\ Len(tickLog) = 2
    /\ nInc = 2

\* C5: cancellation.  A KeyboardInterrupt delivered inside the tick loop ends
\* the loop without an error: no further tick runs and the ledger returned
\* is the ledger as it stood when the interrupt arrived.
CancellationReturnsLedger ==
    /\ [][(InTry /\ ~cancelled /\ cancelled') =>
              /\ pc' = "return"
              /\ error' = ""
              /\ balances' = balances
              /\ tickLog' = tickLog]_vars
    /\ [][(cancelled /\ pc = "return") =>
              /\ pc' = "returned"
              /\ error' = ""
              /\ result' = balances
              /\ balances' = balances
              /\ tickLog' = tickLog]_vars
    /\ [][pc = "returned" => UNCHANGED <<pc, result, balances, tickLog>>]_vars

\* C5 witness: a run cancelled in its second tick, after an order was
\* filled, has returned the ledger
CancellationWitness ==
    /\ cancelled
    /\ pc = "returned"
    /\ Len(tickLog) = 2
    /\ lastFill.op # ""
    /\ result = balances

\* C6: missing data leaves state unchanged.  When the source has no kline
\* for the requested (pair, clock) the lookup returns None and stores
\* nothing in the cache, and neither the lookup nor the buy or sell that
\* asked for the price changes any balance.
MissingDataLeavesStateUnchanged ==
    /\ [][(pc = "fetch" /\ klines[SourceKey] = None /\ pc' = "gotprice") =>
              /\ val' = None
              /\ cache' = cache
              /\ balances' = balances]_vars
    /\ [][(pc = "gotprice" /\ val = None) => balances' = balances]_vars
    /\ [](\A k \in DOMAIN cache : klines[k] # None /\ cache[k] = klines[k])

\* C6 witness: a sell has just received None for its price
MissingDataWitness ==
    /\ pc = "gotprice"
    /\ val = None
    /\ call.op = "sell"
    /\ FPositive(call.bal)

\* C7: an absent price is a no-fill, not a crash.  A buy or sell whose
\* price lookup returned None returns to its caller and the run goes on;
\* the run never ends in an error caused by the absent price.
AbsentPriceIsNoFill == ~(pc = "crashed" /\ error = "TypeError")

\* C8 as claimed: for every key, the first two lookups return the same
\* value and call the source at most once between them (only the calls the
\* source answered are counted here).
CacheFillAtMostOneCallAllKeys ==
    \A k \in Keys :
        lookupsDone[k] <= 2 =>
            /\ srcCalls[k] <= 1
            /\ Cardinality(results[k]) <= 1

\* C8 amended: consecutive lookups of a key return the same value; a key
\* the source has a kline for is fetched successfully at most once, and not
\* at all when the run found it in the cache; the stored price is the
\* source's and a stored key is never asked of the source again; for a key
\* without data nothing is stored and every lookup calls the source again.
CacheFillIdempotent ==
    /\ [](\A k \in Keys :
            /\ Cardinality(results[k]) <= 1
            /\ results[k] \subseteq {klines[k]}
            /\ srcPriced[k] <= 1
            /\ k \in DOMAIN cache =>
                   /\ cache[k] = klines[k]
                   /\ srcPriced[k] = IF k \in DOMAIN cacheAtStart THEN 0 ELSE 1
            /\ klines[k] = None => (k \notin DOMAIN cache /\ srcCalls[k] >= lookupsDone[k]))
    /\ [][\A k \in DOMAIN cache : srcCalls'[k] = srcCalls[k]]_vars

\* C8 witness: a key with a kline was looked up twice and fetched once
CacheFillWitness ==
    \E k \in Keys :
        /\ lookupsDone[k] >= 2
        /\ srcPriced[k] = 1
        /\ srcCalls[k] = 1

(***************************************************************************)
(* The virtual clock on its own: a manager is built (lines 30-41) and its  *)
(* increment (lines 43-44) is called again and again with the interval of  *)
(* the caller.  The method takes whatever number of minutes it is handed.  *)
(***************************************************************************)
AdvanceArgs == {-1, 0, 1, 2}

MaxAdvances == 4

\* lines 38-41: the manager holds the start clock and the start ledger; no
\* backtest() and no download_market_data() is running
ClockInit ==
    /\ start_date \in StartDates
    /\ interval \in AdvanceArgs
    /\ end_date = 0
    /\ starting_coin = SUPPORTED_COIN_LIST[1]
    /\ klines = KlineTable({})
    /\ CacheOpened
    /\ \E arg \in StartBalanceArgs : balances = InitialBalances(arg)
    /\ datetime = start_date
    /\ pc = "off"
    /\ call = NoCall
    /\ depth = 0
    /\ val = None
    /\ error = ""
    /\ result = EmptyDict
    /\ cancelled = FALSE
    /\ nOrders = 0
    /\ nCalls = 0
    /\ tickLog = <<>>
    /\ nInc = 0
    /\ nInit = 0
    /\ srcCalls = [k \in Keys |-> 0]
    /\ srcPriced = [k \in Keys |-> 0]
    /\ lookupsDone = [k \in Keys |-> 0]
    /\ results = [k \in Keys |-> {}]
    /\ lastFill = NoFill
    /\ PrefetchIdle

\* lines 43-44: manager.increment(interval)
ClockAdvance ==
    /\ pc = "off"
    /\ nInc < MaxAdvances
    /\ datetime' = increment(datetime, interval)
    /\ nInc' = nInc + 1
    /\ UNCHANGED <<pc, balances, cache, call, depth, val, error, result, cancelled,
                   nOrders, nCalls, inputs, pfv,
                   tickLog, nInit, srcCalls, srcPriced, lookupsDone, results, lastFill>>

ClockNext == ClockAdvance

ClockSpec == ClockInit /\ [][ClockNext]_vars

\* C9 (as claimed): clock monotonicity.  For every sequence of increment
\* calls the clock accepts, the clock equals start + n * interval after n
\* calls, only an increment call changes it, and every increment call moves
\* it strictly forward.
ClockMonotonic ==
    /\ [](datetime = start_date + nInc * interval)
    /\ [][datetime' # datetime => nInc' = nInc + 1]_vars
    /\ [][nInc' # nInc => datetime' > datetime]_vars

\* C10: a transient network failure is recovered inside the price lookup.
\* However many consecutive ConnectionErrors the source raises, the lookup
\* never raises to its caller.
ConnectionErrorNeverSurfaces == ~(pc = "crashed" /\ error = "RecursionError")


(***************************************************************************)
(* download_market_data, lines 159-191: one _thread process per coin of    *)
(* config.SUPPORTED_COIN_LIST, each with its own manager and counter, all  *)
(* on the module's cache; the calling process loops over the report.       *)
(* Every process takes one step per statement that touches shared state;   *)
(* the sum of line 185 reads the counters one after the other.             *)
(***************************************************************************)
\* datetime(2021, 1, 1) of line 189, the origin of the model's minutes
ReportEpoch == 0

\* line 180: coin + config.BRIDGE.symbol
WorkerSymbol(coin) == coin \o BRIDGE

WorkerKey(c) == CacheKey(WorkerSymbol(c), wClock[c])

\* mutant: every worker is handed the first coin's Value
CounterOf_Shared(c) == SUPPORTED_COIN_LIST[1]

\* lines 179-181: each process gets the Value made for its coin
CounterOf(c) == c

\* mutant: the handler moves on to the next tick
RetryClock_Advanced(dt, minutes) == increment(dt, minutes)

\* lines 173-174: the handler only sleeps; manager.datetime is as it was
RetryClock(dt, minutes) == dt

\* the arguments of the run and the kline table
RunArguments ==
    /\ start_date \in StartDates
    /\ end_date \in EndDates
    /\ interval \in Intervals
    /\ \E gaps \in GapSets : klines = KlineTable(gaps)

\* backtest() is not running
BacktestIdle ==
    /\ starting_coin = SUPPORTED_COIN_LIST[1]
    /\ balances = EmptyDict
    /\ datetime = 0
    /\ pc = "off"
    /\ call = NoCall
    /\ depth = 0
    /\ val = None
    /\ error = ""
    /\ result = EmptyDict
    /\ cancelled = FALSE
    /\ nOrders = 0
    /\ nCalls = 0
    /\ tickLog = <<>>
    /\ nInc = 0
    /\ nInit = 0
    /\ srcCalls = [k \in Keys |-> 0]
    /\ srcPriced = [k \in Keys |-> 0]
    /\ lookupsDone = [k \in Keys |-> 0]
    /\ results = [k \in Keys |-> {}]
    /\ lastFill = NoFill

\* lines 166, 178-181: every worker has built its manager at start_date
WorkersStarted ==
    /\ wPc = [c \in Coins |-> "head"]
    /\ wClock = [c \in Coins |-> start_date]
    /\ wDepth = [c \in Coins |-> 0]
    /\ wVal = [c \in Coins |-> None]
    /\ wTmp = [c \in Coins |-> 0]
    /\ counter = [c \in Coins |-> 0]
    /\ wLooked = [c \in Coins |-> {}]

\* line 184: the caller has started every process and enters `while True`
SupervisorStarted ==
    /\ supPc = "report"
    /\ supIdx = 1
    /\ supTotal = 0
    /\ report = NoReport

PrefetchInit ==
    /\ RunArguments
    /\ BacktestIdle
    /\ CacheOpened
    /\ WorkersStarted
    /\ SupervisorStarted

backtestVars == <<pc, datetime, balances, call, depth, val, error, result, cancelled,
                  nOrders, nCalls, hist>>

\* line 168: while manager.datetime < end_date
WorkerHead(c) ==
    /\ wPc[c] = "head"
    /\ wPc' = [wPc EXCEPT ![c] = IF LoopCondition(wClock[c], end_date)
                                 THEN "get" ELSE "done"]
    /\ UNCHANGED <<wClock, wDepth, wVal, wTmp, counter, wLooked,
                   cache, supervisor, inputs, backtestVars>>

\* get_market_ticker_price has returned to line 170
WorkerReturned(c) ==
    /\ wLooked' = [wLooked EXCEPT ![c] = @ \cup {wClock[c]}]
    /\ wDepth' = [wDepth EXCEPT ![c] = 0]
    /\ wVal' = [wVal EXCEPT ![c] = None]
    /\ wPc' = [wPc EXCEPT ![c] = "inc"]

\* lines 57-62: cache.get(key); a hit is returned at once
WorkerCacheGet(c) ==
    /\ wPc[c] = "get"
    /\ IF WorkerKey(c) \in DOMAIN cache
       THEN WorkerReturned(c)
       ELSE /\ wPc' = [wPc EXCEPT ![c] = "fetch"]
            /\ UNCHANGED <<wLooked, wDepth, wVal>>
    /\ UNCHANGED <<wClock, wTmp, counter,
                   cache, supervisor, inputs, backtestVars>>

\* line 64: the source returns a kline, its open price is taken
WorkerFetch(c) ==
    /\ wPc[c] = "fetch"
    /\ SourceKline(WorkerSymbol(c), wClock[c]) # None
    /\ wVal' = [wVal EXCEPT ![c] = SourceKline(WorkerSymbol(c), wClock[c])]
    /\ wPc' = [wPc EXCEPT ![c] = "set"]
    /\ UNCHANGED <<wClock, wDepth, wTmp, counter, wLooked,
                   cache, supervisor, inputs, backtestVars>>

\* lines 64, 69-70: the source returns no kline, IndexError, return None
WorkerNoData(c) ==
    /\ wPc[c] = "fetch"
    /\ SourceKline(WorkerSymbol(c), wClock[c]) = None
    /\ WorkerReturned(c)
    /\ cache' = CacheAfterNoData(cache, WorkerKey(c))
    /\ UNCHANGED <<wClock, wTmp, counter,
                   supervisor, inputs, backtestVars>>

\* lines 66-68: ConnectionError, sleep, the method calls itself and reads
\* the cache again; past the recursion limit the RecursionError, which
\* _thread does not catch, ends the process
WorkerConnectionError(c) ==
    /\ wPc[c] = "fetch"
    /\ IF RecursionAllowed(wDepth[c])
       THEN /\ wDepth' = [wDepth EXCEPT ![c] = @ + 1]
            /\ wPc' = [wPc EXCEPT ![c] = "get"]
       ELSE /\ wPc' = [wPc EXCEPT ![c] = "dead"]
            /\ UNCHANGED wDepth
    /\ UNCHANGED <<wClock, wVal, wTmp, counter, wLooked,
                   cache, supervisor, inputs, backtestVars>>

\* line 173: BinanceAPIException leaves the method with all its nested
\* frames and is caught in _thread
WorkerAPIError(c) ==
    /\ wPc[c] = "fetch"
    /\ wClock' = [wClock EXCEPT ![c] = RetryClock(@, interval)]
    /\ wDepth' = [wDepth EXCEPT ![c] = 0]
    /\ wPc' = [wPc EXCEPT ![c] = "sleep"]
    /\ UNCHANGED <<wVal, wTmp, counter, wLooked,
                   cache, supervisor, inputs, backtestVars>>

\* line 174: time.sleep(randint(10, 30)), then the loop test runs again
WorkerSleep(c) ==
    /\ wPc[c] = "sleep"
    /\ wPc' = [wPc EXCEPT ![c] = "head"]
    /\ UNCHANGED <<wClock, wDepth, wVal, wTmp, counter, wLooked,
                   cache, supervisor, inputs, backtestVars>>

\* line 65: cache.set(key, val), then the value is returned
WorkerCacheSet(c) ==
    /\ wPc[c] = "set"
    /\ cache' = CacheAfterFetch(cache, WorkerKey(c), wVal[c])
    /\ WorkerReturned(c)
    /\ UNCHANGED <<wClock, wTmp, counter,
                   supervisor, inputs, backtestVars>>

\* line 171: manager.increment(interval)
WorkerIncrement(c) ==
    /\ wPc[c] = "inc"
    /\ wClock' = [wClock EXCEPT ![c] = increment(@, interval)]
    /\ wPc' = [wPc EXCEPT ![c] = "count"]
    /\ UNCHANGED <<wDepth, wVal, wTmp, counter, wLooked,
                   cache, supervisor, inputs, backtestVars>>

\* line 172, counter.value += 1: the value is read ...
WorkerCountRead(c) ==
    /\ wPc[c] = "count"
    /\ wTmp' = [wTmp EXCEPT ![c] = counter[CounterOf(c)]]
    /\ wPc' = [wPc EXCEPT ![c] = "count2"]
    /\ UNCHANGED <<wClock, wDepth, wVal, counter, wLooked,
                   cache, supervisor, inputs, backtestVars>>

\* ... and the value plus one is written back
WorkerCountWrite(c) ==
    /\ wPc[c] = "count2"
    /\ counter' = [counter EXCEPT ![CounterOf(c)] = wTmp[c] + 1]
    /\ wPc' = [wPc EXCEPT ![c] = "head"]
    /\ UNCHANGED <<wClock, wDepth, wVal, wTmp, wLooked,
                   cache, supervisor, inputs, backtestVars>>

Worker(c) ==
    \/ WorkerHead(c)
    \/ WorkerCacheGet(c)
    \/ WorkerFetch(c)
    \/ WorkerNoData(c)
    \/ WorkerConnectionError(c)
    \/ WorkerAPIError(c)
    \/ WorkerSleep(c)
    \/ WorkerCacheSet(c)
    \/ WorkerIncrement(c)
    \/ WorkerCountRead(c)
    \/ WorkerCountWrite(c)

RECURSIVE SumOver(_, _)
\* the sum of the counters as they stand
SumOver(f, S) == IF S = {} THEN 0
                 ELSE LET x == CHOOSE y \in S : TRUE
                      IN f[x] + SumOver(f, S \ {x})

\* line 185: the sum takes the next p[1].value
ReportTotal(sum, value) == sum + value

\* line 186: avg = int(total / len(processes))
ReportAvg(total) == total \div Len(SUPPORTED_COIN_LIST)

\* line 189: datetime(2021, 1, 1) + timedelta(minutes=avg)
ReportDatetime(avg, start, minutes) == ReportEpoch + avg

\* line 185: one p[1].value of the generator is read, under that Value's
\* own lock, and added; the workers run between two reads
SupervisorRead ==
    /\ supPc = "report"
    /\ supIdx <= Len(SUPPORTED_COIN_LIST)
    /\ supTotal' = ReportTotal(supTotal, counter[SUPPORTED_COIN_LIST[supIdx]])
    /\ supIdx' = supIdx + 1
    /\ UNCHANGED <<supPc, report, workers, cache, inputs, backtestVars>>

\* lines 185-189: every Value is read; the average is taken of the sum and
\* the three lines are printed
SupervisorReport ==
    /\ supPc = "report"
    /\ supIdx > Len(SUPPORTED_COIN_LIST)
    /\ report' = [total |-> supTotal,
                  avg |-> ReportAvg(supTotal),
                  at |-> ReportDatetime(ReportAvg(supTotal), start_date, interval)]
    /\ supPc' = "sleep"
    /\ UNCHANGED <<supIdx, supTotal, workers, cache, inputs, backtestVars>>

\* lines 190-191 and back to 185: time.sleep(5), print, and the next pass;
\* the loop has no exit
SupervisorSleep ==
    /\ supPc = "sleep"
    /\ supPc' = "report"
    /\ supIdx' = 1
    /\ supTotal' = 0
    /\ UNCHANGED <<report, workers, cache, inputs, backtestVars>>

Supervisor ==
    \/ SupervisorRead
    \/ SupervisorReport
    \/ SupervisorSleep

PrefetchNext ==
    \/ \E c \in Coins : Worker(c)
    \/ SupervisorRead
    \/ SupervisorReport
    \/ SupervisorSleep

PrefetchSpec == PrefetchInit /\ [][PrefetchNext]_vars

\* every process is scheduled again and again; the source may fail, but a
\* call that can be answered is not refused forever
PrefetchFairSpec ==
    /\ PrefetchInit
    /\ [][PrefetchNext]_vars
    /\ \A c \in Coins :
          /\ WF_vars(Worker(c))
          /\ SF_vars(WorkerFetch(c))
          /\ SF_vars(WorkerNoData(c))
    /\ WF_vars(Supervisor)

(***************************************************************************)
(* Properties of the prefetch.                                             *)
(***************************************************************************)
\* the clock values of the timeline: start + k * interval below the end
TickTimes ==
    {start_date + k * interval :
        k \in 0..(TicksBefore(start_date, end_date, interval) - 1)}

\* the step in which worker c handles a BinanceAPIException
APIErrorStep(c) == wPc[c] = "fetch" /\ wPc'[c] = "sleep"

\* while worker c is at its loop test or inside a lookup, the lookups that
\* returned are exactly those of the ticks before its clock
NoTickSkipped ==
    \A c \in Coins :
        wPc[c] \in {"head", "sleep", "get", "fetch", "set", "done"} =>
            wLooked[c] = {t \in TickTimes : t < wClock[c]}

\* C11: prefetch retries the same tick on API error.  The step that handles
\* a BinanceAPIException changes neither the worker's clock nor its counter
\* and leads, by way of the sleep, back to the loop test, so the next lookup
\* has the same key; no tick of the timeline is skipped.
PrefetchRetriesSameTick ==
    /\ [][\A c \in Coins :
            APIErrorStep(c) =>
                /\ wClock'[c] = wClock[c]
                /\ counter' = counter
                /\ wLooked'[c] = wLooked[c]]_vars
    /\ []NoTickSkipped

\* C11 witness: a worker has caught a BinanceAPIException at its second
\* tick, which is still to be looked up, with one tick counted
PrefetchRetryWitness ==
    \E c \in Coins :
        /\ wPc[c] = "sleep"
        /\ wClock[c] = start_date + interval
        /\ wClock[c] \notin wLooked[c]
        /\ counter[c] = 1

AllWorkersDone == \A c \in Coins : wPc[c] = "done"

\* C12: the prefetch entry point terminates.  Under fair scheduling and a
\* source that eventually answers, once every worker has finished its
\* timeline download_market_data eventually returns.
PrefetchEventuallyReturns == AllWorkersDone ~> (supPc = "returned")

(***************************************************************************)
(* Further properties of backtest().                                       *)
(***************************************************************************)
\* C13: opening position.  When the lines before the thresholds call are
\* done, either the starting coin had a zero balance and exactly one buy of
\* it against the bridge was made, which left its balance nonzero and equal
\* to the order quantity net of the fee and left the bridge balance lower;
\* or the starting coin had a nonzero balance, no order was made and the
\* ledger is the one the run started with.
OpeningPositionSeeded ==
    pc = "thresholds" =>
        \/ /\ nOrders = 1
           /\ lastFill.op = "buy"
           /\ lastFill.origin = starting_coin
           /\ lastFill.target = BRIDGE
           /\ lastFill.ob = Zero
           /\ FPositive(lastFill.tb)
           /\ balances[starting_coin] = lastFill.oa
           /\ lastFill.oa # Zero
           /\ lastFill.oa = FMul(lastFill.q, FSub(One, FeeRate))
           /\ balances[BRIDGE] = lastFill.ta
           /\ FLess(lastFill.ta, lastFill.tb)
        \/ /\ nOrders = 0
           /\ lastFill = NoFill
           /\ get_currency_balance(balances, starting_coin) # Zero
           /\ \E arg \in StartBalanceArgs : balances = InitialBalances(arg)

\* C13 witness: the opening buy of the starting coin was made from the
\* default ledger and the thresholds call is next
OpeningPositionWitness ==
    /\ pc = "thresholds"
    /\ nOrders = 1
    /\ lastFill.tb = FInt(100)
    /\ balances[starting_coin] # Zero

\* a run that started with the starting coin in the ledger skipped the buy
OpeningSkippedWitness ==
    /\ pc = "thresholds"
    /\ nOrders = 0
    /\ balances[starting_coin] = FInt(8)

\* C14: fatal errors surface.  An exception other than the KeyboardInterrupt
\* caught around the loop ends the run where it is raised: the run is
\* crashed with that exception, no ledger is returned, the failed tick is
\* not evaluated again and no further step is taken.
FatalErrorsSurface ==
    /\ [](error # "" => pc = "crashed" /\ result = EmptyDict)
    /\ [][(error = "" /\ error' # "") =>
             /\ pc' = "crashed"
             /\ tickLog' = tickLog
             /\ balances' = balances]_vars
    /\ [][pc # "crashed"]_vars

\* C14 witness: a BinanceAPIException raised by a price lookup inside the
\* second tick ended the run
FatalErrorWitness ==
    /\ pc = "crashed"
    /\ error = "BinanceAPIException"
    /\ call.cont = "scout"
    /\ Len(tickLog) = 2
    /\ ~cancelled

(***************************************************************************)
(* download_market_data() and a backtest() started beside it on the same   *)
(* cache directory: the workers, the supervisor and the backtest process   *)
(* take their steps in any order.                                          *)
(***************************************************************************)
SharedEnd == 1

\* both programs are started for the same minutes, one-minute ticks; the
\* backtest is started on the first coin of the list, with the default
\* ledger or with a ledger that holds the coin
SharedInit ==
    /\ start_date = 0
    /\ end_date = SharedEnd
    /\ interval = 1
    /\ \E gaps \in GapSets : klines = KlineTable(gaps)
    /\ CacheOpened
    /\ BacktestStarted
    /\ starting_coin = SUPPORTED_COIN_LIST[1]
    /\ balances \in {InitialBalances(EmptyDict), [s \in {"X"} |-> FInt(8)]}
    /\ WorkersStarted
    /\ SupervisorStarted

\* the strategy run beside the prefetch looks prices up and places no order
\* of its own; the opening buy is the backtest's
SharedNext ==
    \/ OpeningPosition
    \/ InitializeThresholds
    \/ EnterTry
    \/ LoopEnter
    \/ LoopExit
    \/ ReturnBalances
    \/ Increment
    \/ ScoutGetPrice
    \/ ScoutReturn
    \/ LookupHit
    \/ LookupMiss
    \/ LookupFetch
    \/ LookupStore
    \/ LookupNoData
    \/ LookupConnectionError
    \/ LookupAPIError
    \/ PriceReturn
    \/ BuyDebit
    \/ BuyCredit
    \/ KeyboardInterrupt
    \/ \E c \in Coins : Worker(c)
    \/ SupervisorRead
    \/ SupervisorReport
    \/ SupervisorSleep

SharedCacheSpec == SharedInit /\ [][SharedNext]_vars

\* C15: cached prices are immutable under concurrency.  Whatever the
\* interleaving of the workers' and the backtest's lookups, no step removes
\* a cache entry or changes the price stored under a key, and a process
\* about to write a key that is already stored carries the stored price.
CachedPricesImmutable ==
    /\ [][\A k \in DOMAIN cache : k \in DOMAIN cache' /\ cache'[k] = cache[k]]_vars
    /\ [](\A c \in Coins :
            (wPc[c] = "set" /\ WorkerKey(c) \in DOMAIN cache) =>
                wVal[c] = cache[WorkerKey(c)])
    /\ []((pc = "store" /\ LookupKey \in DOMAIN cache) => val = cache[LookupKey])

\* C15 witness: a colliding write.  A worker missed a key, fetched its
\* price, and finds the key stored by the backtest, which has moved on to
\* the next tick, before its own cache.set
CollidingWriteWitness ==
    \E c \in Coins :
        /\ wPc[c] = "set"
        /\ WorkerKey(c) \in DOMAIN cache
        /\ WorkerKey(c) \notin DOMAIN cacheAtStart
        /\ datetime > wClock[c]

\* the run is past the thresholds call: in the loop, or stopped in it
PastThresholds ==
    \/ pc \in {"try", "loop", "scout", "increment", "return"}
    \/ call.cont = "scout"
    \/ Len(tickLog) > 0

\* C16: ordering of the strategy calls.  initialize_trade_thresholds() is
\* called once: when the opening lines are done, no order is in progress and
\* the starting coin has a balance, and before any scout().  scout() is
\* called only when every earlier tick was followed by its increment, and the
\* clock is advanced only after the scout() of the tick has returned; the
\* clock values scout() was called at are pairwise distinct.
StrategyCallsOrdered ==
    /\ [](nInit <= 1 /\ (PastThresholds => nInit = 1))
    /\ [][nInit' # nInit =>
             /\ nInit' = 1
             /\ pc = "thresholds"
             /\ call = NoCall
             /\ tickLog = <<>>
             /\ get_currency_balance(balances, starting_coin) # Zero]_vars
    /\ [][tickLog' # tickLog =>
             /\ Len(tickLog') = Len(tickLog) + 1
             /\ Len(tickLog) = nInc
             /\ nInit = 1
             /\ pc' = "scout"]_vars
    /\ [][nInc' # nInc =>
             /\ nInc' = nInc + 1
             /\ Len(tickLog) = nInc'
             /\ pc = "increment"
             /\ call = NoCall]_vars
    /\ [](\A i, j \in 1..Len(tickLog) : i # j => tickLog[i] # tickLog[j])

\* C16 witness: after an opening buy and the thresholds call, the second
\* scout() is running, one increment after the first
StrategyCallsWitness ==
    /\ pc = "scout"
    /\ nInit = 1
    /\ Len(tickLog) = 2
    /\ nInc = 1
    /\ tickLog[1] # tickLog[2]
    /\ nOrders >= 1
    /\ lastFill.at = start_date

\* key of the starting coin against the bridge at the start of the run
OpeningKey == CacheKey(starting_coin \o BRIDGE, start_date)

\* C17 (as claimed): the opening buy takes its price from a live snapshot,
\* so until the thresholds call no historical lookup was made and the
\* historical source has not been called.
OpeningBuyUsesNoHistory ==
    nInit = 0 =>
        \A k \in Keys : srcCalls[k] = 0 /\ lookupsDone[k] = 0

\* C17 (amended): the opening buy takes its price through the FakeAllTickers
\* snapshot, that is by get_market_ticker_price at the start clock.  Until
\* the thresholds call no key other than (starting coin + bridge, start) is
\* looked up, fetched or stored, and a completed opening buy was priced by
\* one lookup with the source's price of that key, which is in the cache:
\* fetched once and stored, unless the run found it there.
OpeningBuyUsesHistoricalLookup ==
    nInit = 0 =>
        /\ \A k \in Keys \ {OpeningKey} :
              /\ srcCalls[k] = 0
              /\ lookupsDone[k] = 0
              /\ k \in DOMAIN cache <=> k \in DOMAIN cacheAtStart
        /\ (pc = "thresholds" /\ nOrders = 1) =>
              /\ lastFill.price = klines[OpeningKey]
              /\ OpeningKey \in DOMAIN cache
              /\ cache[OpeningKey] = lastFill.price
              /\ srcPriced[OpeningKey] = IF OpeningKey \in DOMAIN cacheAtStart THEN 0 ELSE 1
              /\ lookupsDone[OpeningKey] = 1

\* C17 witness: an opening buy at the second minute is done, priced from the
\* cache entry its lookup wrote
OpeningBuyLookupWitness ==
    /\ pc = "thresholds"
    /\ nOrders = 1
    /\ start_date = 1
    /\ OpeningKey \in DOMAIN cache
    /\ lastFill.price = cache[OpeningKey]
    /\ srcCalls[OpeningKey] = 1

\* C18: progress report values.  Every report of the supervisor prints as
\* total the sum of the workers' counters, as average the total divided by
\* the number of workers, rounded down, and as average datetime the start
\* date of the run plus average times the tick interval of the run.
ProgressReportValues ==
    [][(supPc = "report" /\ supPc' = "sleep") =>
         /\ report'.total = SumOver(counter, Coins)
         /\ report'.avg * Cardinality(Coins) <= report'.total
         /\ report'.total < (report'.avg + 1) * Cardinality(Coins)
         /\ report'.at = start_date + report'.avg * interval]_vars

\* C19: per-worker counter integrity.  A counter changes only in the write
\* step of its own worker and then grows by one; the supervisor's report
\* changes no counter; whenever a worker is not between a returned lookup
\* and its count, its counter is the number of lookups that returned (no
\* increment is lost); at the loop test the worker's clock is
\* start + counter * interval; a worker that has finished counted every tick
\* of its timeline.
CounterIntegrity ==
    /\ [][\A c \in Coins :
            counter'[c] # counter[c] =>
                /\ wPc[c] = "count2"
                /\ wPc'[c] = "head"
                /\ counter'[c] = counter[c] + 1]_vars
    /\ [][supervisor' # supervisor => counter' = counter]_vars
    /\ [](\A c \in Coins :
            wPc[c] \in {"head", "sleep", "get", "fetch", "set", "done", "dead"} =>
                counter[c] = Cardinality(wLooked[c]))
    /\ [](\A c \in Coins :
            wPc[c] = "head" => wClock[c] = start_date + counter[c] * interval)
    /\ [](\A c \in Coins :
            wPc[c] = "done" =>
                counter[c] = TicksBefore(start_date, end_date, interval))

\* C19 witness: one worker has finished with two ticks counted while the
\* other is still inside its loop and the supervisor has reported in between
CounterIntegrityWitness ==
    \E c, d \in Coins :
        /\ wPc[c] = "done"
        /\ counter[c] = 2
        /\ wPc[d] \in {"get", "fetch", "set", "inc", "count", "count2"}
        /\ counter[d] = 1
        /\ report.total = 2

\* C20: orders are atomic with respect to cancellation.  A ledger returned
\* while a buy or sell was in progress shows neither leg of that order: both
\* of its balances are what they were when the order was entered.
OrdersAtomicUnderCancellation ==
    (pc = "returned" /\ call.op \in {"buy", "sell"}) =>
        /\ get_currency_balance(result, call.target) = call.tb
        /\ get_currency_balance(result, call.origin) = call.ob

====
